---------------------------- MODULE Spec2Model ----------------------------
(***************************************************************************)
(* A model of the comment-retrieval layer of the YouTube comments analyzer *)
(* (src/server/main.py, src/server/config.py, src/server/demo_data.py):    *)
(* the credential pool and its rotation, exponential_backoff_retry, the    *)
(* paginated fetch loop of get_video_comments_raw / get_video_comments and *)
(* the two endpoints /comments/raw and /comments that call them.           *)
(*                                                                         *)
(* The remote API is an adversary: every invocation of a page request      *)
(* answers with a page (any number of items up to MaxPageItems, with or    *)
(* without a continuation token), with a quota error, with another         *)
(* HttpError, or with some other exception.                                *)
(*                                                                         *)
(* The specifications share the definitions: Spec (one request served at a *)
(* time against the adversary above) and FairSpec (Spec with fairness),    *)
(* PoolSpec (rotate_api_key alone), FakeSpec (the same actions as Spec     *)
(* against a deterministic fake remote, each call repeated), DemoSpec      *)
(* (generate_demo_comments alone) and ConcSpec (two calls of the retry     *)
(* loop under way at once on the shared pool).                             *)
(***************************************************************************)
EXTENDS Integers, Sequences, FiniteSets, TLC

(***************************************************************************)
(* Bounds of the model and constants of the program.                       *)
(***************************************************************************)
MaxKeys == 3
    \* pools of 0..MaxKeys credentials
MaxComments == 2
    \* max_comments ranges over 0..MaxComments
MaxPagesArg == 2
    \* max_pages ranges over 1..MaxPagesArg
MaxPageItems == 2
    \* a remote page carries 0..MaxPageItems items
MaxRotateCalls == 15
    \* number of successive rotate() calls in PoolSpec
MAX_RETRIES == 3
PAGE_CEILING == 100
DEMO_POOL_SIZE == 20
ENDPOINT_TIMEOUT == 60
MaxDemoArg == 25
    \* generate_demo_comments is called with max_comments in 0..MaxDemoArg

Min(a, b) == IF a <= b THEN a ELSE b

VARIABLES
    nKeys,                  \* len(API_KEYS)
    current_api_key_index,  \* the global rotation index
    pc,                     \* where the flow stands
    entry,                  \* which caller started the fetch
    args,                   \* max_comments, max_pages, timeout_seconds
    attempt,                \* exponential_backoff_retry's loop variable
    which,                  \* "first" or "next": the page the retry call fetches
    comments,               \* comments_raw / comments_with_sentiment
    stats,                  \* the stats dict of the fetch
    elapsed,                \* time.time() - start_time at the latest timeout check
    outcome,                \* how the fetch ended: a return or a raise
    http,                   \* the endpoint's response
    invocations,            \* history: page requests sent by the latest retry call
    quotaFails,             \* history: those of them answered with a quota error
    usedKey,                \* history: the credential that obtained the latest page
    sleeps,                 \* history: time.sleep calls of that retry call
    idx0,                   \* history: rotation index when that retry call began
    raised,                 \* history: the exception that left that retry call
    reqSizes,               \* history: maxResults of the page requests of this fetch
    legacy,                 \* FakeSpec: get_video_comments run beside the fetch
    rotCalls,               \* PoolSpec: rotate() calls made so far
    rotStart,               \* PoolSpec: the index before the first of them
    rotRets,                \* PoolSpec: what each of them returned
    fake,                   \* FakeSpec: the deterministic remote installed, if any
    prev,                   \* FakeSpec: the call before this one and what it gave
    demo,                   \* DemoSpec: the latest generate_demo_comments call
    host,                   \* ConcSpec: what runs the calls: the event loop or threads
    flows,                  \* ConcSpec: the concurrent calls sharing the pool
    running                 \* ConcSpec: the call that holds the event loop, or 0

vars == <<nKeys, current_api_key_index, pc, entry, args, attempt, which, comments,
          stats, elapsed, outcome, http, invocations, quotaFails, usedKey, sleeps,
          idx0, raised, reqSizes, legacy, rotCalls, rotStart, rotRets, fake, prev, demo,
          host, flows, running>>

fetchVars == <<pc, entry, args, attempt, which, comments, stats, elapsed, outcome,
               http, invocations, quotaFails, usedKey, sleeps, idx0, raised, reqSizes,
               legacy>>
poolTestVars == <<rotCalls, rotStart, rotRets>>
fixtureVars == <<fake, demo>>
concVars == <<host, flows, running>>

Entries == {"raw_endpoint", "legacy_endpoint", "raw_direct"}
NoPage == [items |-> <<>>, hasNext |-> FALSE]
NoOutcome == [kind |-> "none"]
NoHttp == [status |-> 0]
NoStats == [total_comments |-> 0]

(***************************************************************************)
(* CredentialPool: rotate_api_key.                                         *)
(***************************************************************************)
\* A rotation that forgets to wrap.
RotateIndexNoWrap(idx, n) ==
    IF n > 1 THEN idx + 1 ELSE idx

\* A rotation that steps over a credential.
RotateIndexSkips(idx, n) ==
    IF n > 1 THEN (idx + 2) % n ELSE idx

\* A rotation that leaves the index where it is.
RotateIndexStays(idx, n) ==
    idx

RotateIndex(idx, n) ==
    IF n > 1 THEN (idx + 1) % n ELSE idx

\* A rotation that reports success on a pool of one.
RotateReturnsAlways(n) ==
    n >= 1

RotateReturns(n) ==
    n > 1


(***************************************************************************)
(* The remote API: what one invocation of a page request can answer: a     *)
(* page, an HttpError (of status 403 or another, its text naming quota or  *)
(* not), or an exception that is no HttpError.                             *)
(* An item is "ok" (a well-formed comment thread) or "bad" (reading it     *)
(* raises, so the item loop skips it).                                     *)
(***************************************************************************)
ItemSeqs == UNION {[1..n -> {"ok", "bad"}] : n \in 0..MaxPageItems}
Pages == [items : ItemSeqs, hasNext : BOOLEAN]
Answers == {[kind |-> "page", status |-> 200, quotaWord |-> FALSE, page |-> p] :
                p \in Pages}
           \cup [kind : {"HttpError"}, status : {403, 500}, quotaWord : BOOLEAN,
                 page : {NoPage}]
           \cup {[kind |-> "Exception", status |-> 0, quotaWord |-> FALSE, page |-> NoPage]}

\* is_quota_exceeded_error: an HttpError of status 403 whose text carries
\* one of the quota keywords.
is_quota_exceeded_error(e) ==
    e.kind = "HttpError" /\ e.status = 403 /\ e.quotaWord

\* How exponential_backoff_retry's except clauses sort what func() did.
Classify(ans) ==
    CASE ans.kind = "page" -> "page"
      [] ans.kind = "HttpError" ->
            IF is_quota_exceeded_error(ans) THEN "quota" ELSE "http_error"
      [] OTHER -> "exception"

HTTPException(status, detail) ==
    [type |-> "HTTPException", status |-> status, detail |-> detail]
OtherException ==
    [type |-> "Exception", status |-> 0, detail |-> "remote failure"]
NoException ==
    [type |-> "none", status |-> 0, detail |-> ""]

(***************************************************************************)
(* get_youtube_client: the answer func() gets.  With no credential         *)
(* configured it raises before any request is sent.                        *)
(***************************************************************************)
FuncAnswer(n, ans) ==
    IF n = 0 THEN [kind |-> "no_keys", page |-> NoPage]
    ELSE [kind |-> Classify(ans), page |-> ans.page]

(***************************************************************************)
(* exponential_backoff_retry: what the handler of one attempt does with    *)
(* the answer of func().                                                   *)
(*   "return"    the page is returned                                      *)
(*   "continue"  quota error, rotate_api_key() returned True               *)
(*   "raise"     an exception leaves the retry call                        *)
(*   "sleep"     time.sleep(delay), then the next attempt                  *)
(***************************************************************************)
\* A retry that gives up one attempt early.
LastAttemptEarly(a) ==
    ~(a < MAX_RETRIES - 2)

LastAttempt(a) ==
    ~(a < MAX_RETRIES - 1)

\* A retry that treats a quota error like any other error.
RetryStepQuotaBlind(kind, a, n) ==
    CASE kind = "page" -> "return"
      [] OTHER -> IF LastAttempt(a) THEN "raise" ELSE "sleep"

RetryStep(kind, a, n) ==
    CASE kind = "page" -> "return"
      [] kind = "quota" -> IF RotateReturns(n) THEN "continue" ELSE "raise"
      [] OTHER -> IF LastAttempt(a) THEN "raise" ELSE "sleep"

\* The exception that leaves the retry call when RetryStep says "raise".
RetryRaises(kind) ==
    CASE kind = "quota" -> HTTPException(429, "QUOTA_EXCEEDED")
      [] kind = "http_error" -> HTTPException(500, "YouTube API error")
      [] kind = "no_keys" -> HTTPException(500, "No YouTube API keys configured")
      [] OTHER -> OtherException

\* A for loop that never runs out of attempts.
LoopExhaustedNever(a) ==
    FALSE

\* The for loop ran out of attempts (line 111).
LoopExhausted(a) ==
    ~(a < MAX_RETRIES)

MaxRetriesExceeded == HTTPException(500, "Max retries exceeded")

(***************************************************************************)
(* get_video_comments_raw / get_video_comments: what the fetch does with   *)
(* an exception of the retry call.  On the first page every exception      *)
(* fails the fetch; on a next page an HTTPException breaks the loop and    *)
(* the fetch returns what it has.                                          *)
(***************************************************************************)
NextPageCaught(exc) ==
    exc.type = "HTTPException"

\* A fetch that returns what it has whatever the failure.
FetchSoftStops(exc) ==
    [kind |-> "return", status |-> 0, detail |-> ""]

FetchRaises(exc) ==
    IF exc.type = "HTTPException"
    THEN [kind |-> "raise", status |-> exc.status, detail |-> exc.detail]
    ELSE [kind |-> "raise", status |-> 500, detail |-> "Failed to fetch comments"]

FetchReturns == [kind |-> "return", status |-> 0, detail |-> ""]

(***************************************************************************)
(* The stop conditions and the item loop of one iteration.                 *)
(***************************************************************************)
\* A timeout check that allows the endpoints' timeout on top.
TimedOutLate(el, timeout) ==
    el > timeout + ENDPOINT_TIMEOUT + 1

TimedOut(el, timeout) ==
    el > timeout

\* A page-limit check that lets one page more through.
PageLimitExceededLate(pages, max_pages) ==
    pages > max_pages + 1

PageLimitExceeded(pages, max_pages) ==
    pages > max_pages

\* An item-limit check that is off by one.
AtItemLimitOffByOne(total, max_comments) ==
    total > max_comments

AtItemLimit(total, max_comments) ==
    total >= max_comments

\* An item loop that gives up on the page at the first unreadable item.
RECURSIVE ProcessItemsStopsAtBad(_, _, _, _, _)
ProcessItemsStopsAtBad(items, i, acc, max_comments, page) ==
    IF i > Len(items) THEN acc
    ELSE IF AtItemLimit(acc.total, max_comments)
         THEN [acc EXCEPT !.reached = TRUE]
    ELSE IF items[i] = "bad"
         THEN acc
    ELSE ProcessItemsStopsAtBad(items, i + 1,
                                [acc EXCEPT !.comments = Append(@, <<page, i>>),
                                            !.total = @ + 1],
                                max_comments, page)

RECURSIVE ProcessItems(_, _, _, _, _)
ProcessItems(items, i, acc, max_comments, page) ==
    IF i > Len(items) THEN acc
    ELSE IF AtItemLimit(acc.total, max_comments)
         THEN [acc EXCEPT !.reached = TRUE]
    ELSE IF items[i] = "bad"
         THEN ProcessItems(items, i + 1, acc, max_comments, page)
    ELSE ProcessItems(items, i + 1,
                      [acc EXCEPT !.comments = Append(@, <<page, i>>),
                                  !.total = @ + 1],
                      max_comments, page)

FirstPageSize(max_comments) ==
    Min(PAGE_CEILING, max_comments)

NextPageSize(max_comments, total) ==
    Min(PAGE_CEILING, max_comments - total)

InitialStats(idx, n) ==
    [total_comments |-> 0, pages_processed |-> 0,
     max_comments_reached |-> FALSE, max_pages_reached |-> FALSE,
     timeout_reached |-> FALSE,
     api_key_used |-> idx + 1, total_api_keys |-> n]

(***************************************************************************)
(* get_video_comments, the fetch with sentiment: the same loop, whose item *)
(* loop scores each comment with analyze_sentiment before it appends the   *)
(* record.  A record is the item it was read from and its sentiment.       *)
(* Scoring is taken never to raise.  Against a fake remote the model runs  *)
(* it beside get_video_comments_raw, on the same arguments, the same pool  *)
(* and the same answers.                                                   *)
(***************************************************************************)
\* The polarity TextBlob finds in the text of item i of page p: some fixed
\* number per text, of either sign or zero.
TextPolarity(p, i) ==
    ((p + i) % 3) - 1

analyze_sentiment(polarity) ==
    IF polarity > 0 THEN "Positive"
    ELSE IF polarity = 0 THEN "Neutral"
    ELSE "Negative"

LegacyInitialStats(idx, n) ==
    [total_comments |-> 0, pages_processed |-> 0,
     max_comments_reached |-> FALSE, max_pages_reached |-> FALSE,
     timeout_reached |-> FALSE,
     api_key_used |-> idx + 1, total_api_keys |-> n]

LegacyFirstPageSize(max_comments) ==
    Min(PAGE_CEILING, max_comments)

LegacyNextPageSize(max_comments, total) ==
    Min(PAGE_CEILING, max_comments - total)

\* An item loop in which scoring a text of negative polarity raises: the
\* except clause of the loop skips the item.
RECURSIVE LegacyProcessItemsScoringRaises(_, _, _, _, _)
LegacyProcessItemsScoringRaises(items, i, acc, max_comments, page) ==
    IF i > Len(items) THEN acc
    ELSE IF acc.total >= max_comments
         THEN [acc EXCEPT !.reached = TRUE]
    ELSE IF items[i] = "bad" \/ TextPolarity(page, i) < 0
         THEN LegacyProcessItemsScoringRaises(items, i + 1, acc, max_comments, page)
    ELSE LegacyProcessItemsScoringRaises(items, i + 1,
                      [acc EXCEPT !.comments =
                                     Append(@, [item |-> <<page, i>>,
                                                sentiment |-> analyze_sentiment(
                                                                 TextPolarity(page, i))]),
                                  !.total = @ + 1],
                      max_comments, page)

RECURSIVE LegacyProcessItems(_, _, _, _, _)
LegacyProcessItems(items, i, acc, max_comments, page) ==
    IF i > Len(items) THEN acc
    ELSE IF acc.total >= max_comments
         THEN [acc EXCEPT !.reached = TRUE]
    ELSE IF items[i] = "bad"
         THEN LegacyProcessItems(items, i + 1, acc, max_comments, page)
    ELSE LegacyProcessItems(items, i + 1,
                      [acc EXCEPT !.comments =
                                     Append(@, [item |-> <<page, i>>,
                                                sentiment |-> analyze_sentiment(
                                                                 TextPolarity(page, i))]),
                                  !.total = @ + 1],
                      max_comments, page)

LegacyIteration(st, cs, page, a, el) ==
    IF el > a.timeout_seconds
    THEN [stats |-> [st EXCEPT !.timeout_reached = TRUE], comments |-> cs, stop |-> TRUE]
    ELSE LET p == st.pages_processed + 1
         IN IF p > a.max_pages
            THEN [stats |-> [st EXCEPT !.pages_processed = p, !.max_pages_reached = TRUE],
                  comments |-> cs, stop |-> TRUE]
            ELSE LET r == LegacyProcessItems(page.items, 1,
                                             [comments |-> cs,
                                              total |-> st.total_comments,
                                              reached |-> FALSE],
                                             a.max_comments, p)
                 IN [stats |-> [st EXCEPT !.pages_processed = p,
                                          !.total_comments = r.total,
                                          !.max_comments_reached = r.reached],
                     comments |-> r.comments,
                     stop |-> r.reached \/ ~page.hasNext]

LegacyNextPageCaught(exc) ==
    exc.type = "HTTPException"

LegacyFetchRaises(exc) ==
    IF exc.type = "HTTPException"
    THEN [kind |-> "raise", status |-> exc.status, detail |-> exc.detail]
    ELSE [kind |-> "raise", status |-> 500, detail |-> "Failed to fetch comments"]


(***************************************************************************)
(* FallbackSource (generate_demo_comments) and the response model.         *)
(* A synthetic comment is a text of its category's pool (any of them:      *)
(* random.choice) with the sentinel sentiment; a fetched one is            *)
(* <<page, position>>.                                                     *)
(***************************************************************************)
\* DEMO_COMMENTS: three pools of DEMO_POOL_SIZE texts each.
DEMO_COMMENTS == [c \in {"tech", "entertainment", "educational"} |-> DEMO_POOL_SIZE]
CategoryArgs == DOMAIN DEMO_COMMENTS \cup {"gaming"}
NoDemo == [called |-> FALSE]

\* range(min(max_comments, len(comment_pool))): how many records are made.
\* A count that is not held to the pool.
DemoCountUnclamped(max_comments, pool) ==
    max_comments

DemoCount(max_comments, pool) ==
    IF Min(max_comments, pool) > 0 THEN Min(max_comments, pool) ELSE 0

\* "max_comments_reached": len(comments) >= max_comments.
\* A flag that reports the exhaustion of the pool instead.
DemoLimitReachedOnExhaustion(n, max_comments) ==
    n < max_comments

DemoLimitReached(n, max_comments) ==
    n >= max_comments

generate_demo_comments(max_comments, category) ==
    LET cat == IF category \notin DOMAIN DEMO_COMMENTS THEN "tech" ELSE category
        n == DemoCount(max_comments, DEMO_COMMENTS[cat])
    IN [comments |-> [i \in 1..n |-> [pool |-> cat, sentiment |-> "Not analyzed"]],
        stats |-> [total_comments |-> n, pages_processed |-> 1,
                   max_comments_reached |-> DemoLimitReached(n, max_comments),
                   max_pages_reached |-> FALSE, timeout_reached |-> FALSE,
                   api_key_used |-> "DEMO_MODE", total_api_keys |-> "DEMO_MODE",
                   demo_mode |-> TRUE, demo_category |-> cat]]

\* The fields of a stats dict whose value is a string that is no number:
\* generate_demo_comments sets api_key_used, total_api_keys and demo_category
\* to such strings, and the endpoint adds "warning".
StatsStrings(st) ==
    {f \in DOMAIN st :
        \/ f \in {"warning", "demo_category"}
        \/ f \in {"api_key_used", "total_api_keys"} /\ "demo_mode" \in DOMAIN st}

\* CommentResponse(comments=..., stats=...) validates stats as Dict[str, int].
CommentResponseValid(st) ==
    StatsStrings(st) = {}

Ok200(cs, st) == [status |-> 200, detail |-> "", comments |-> cs, stats |-> st]
ErrorResponse(status, detail) == [status |-> status, detail |-> detail]

\* fetch_comments_raw's last resort (except Exception).
LastResort(max_comments) ==
    LET d == generate_demo_comments(max_comments, "tech")
        st == d.stats @@ [warning |-> "Error occurred", error_fallback |-> TRUE]
    IN IF CommentResponseValid(st) THEN Ok200(d.comments, st)
       ELSE ErrorResponse(500, "Failed to fetch comments")

\* The demo fallback of fetch_comments_raw on HTTPException(429, "QUOTA_EXCEEDED").
DemoFallback(max_comments) ==
    LET d == generate_demo_comments(max_comments, "tech")
        st == d.stats @@ [warning |-> "YouTube API quota exceeded", demo_fallback |-> TRUE]
    IN IF CommentResponseValid(st) THEN Ok200(d.comments, st)
       ELSE LastResort(max_comments)

IsQuotaSignal(out) ==
    out.kind = "raise" /\ out.status = 429 /\ out.detail = "QUOTA_EXCEEDED"

fetch_comments_raw(out, cs, st, max_comments) ==
    CASE out.kind = "demo" ->
            LET d == generate_demo_comments(max_comments, "tech")
            IN IF CommentResponseValid(d.stats) THEN Ok200(d.comments, d.stats)
               ELSE LastResort(max_comments)
      [] out.kind = "return" ->
            IF CommentResponseValid(st) THEN Ok200(cs, st) ELSE LastResort(max_comments)
      [] OTHER ->
            IF IsQuotaSignal(out) THEN DemoFallback(max_comments)
            ELSE ErrorResponse(out.status, out.detail)

fetch_comments(out, cs, st) ==
    IF out.kind = "return"
    THEN IF CommentResponseValid(st) THEN Ok200(cs, st)
         ELSE ErrorResponse(500, "Failed to fetch comments")
    ELSE ErrorResponse(out.status, out.detail)

(***************************************************************************)
(* Time.  The fetch reads the clock only in the timeout check at the head  *)
(* of each loop iteration, so the model draws the reading there: any       *)
(* reading not below the previous one.  The timeouts are 0 and the         *)
(* endpoints' timeout; the readings are the two ends: no time at all       *)
(* (which equals a timeout of 0 without exceeding it) and more than the    *)
(* endpoints' timeout.                                                     *)
(***************************************************************************)
TimeoutArgs == {0, ENDPOINT_TIMEOUT}
ClockReadings == {0, ENDPOINT_TIMEOUT + 1}

\* The readings the clock can give when func() has answered: only a page
\* leads to a timeout check.
ReadingsAt(kind, el) ==
    IF kind = "page" THEN {c \in ClockReadings : c >= el} ELSE {el}

(***************************************************************************)
(* A deterministic fake of the remote API, for the claims about what a     *)
(* fetch makes of given pages and about repeated calls.  The fake holds a  *)
(* fixed list of pages (every page but the last carries a nextPageToken),  *)
(* answers quota-exhausted under the credentials in quotaKeys, and, where  *)
(* rejectsZero is set, fails a request whose maxResults is 0 (the API      *)
(* documents 1..100 as the acceptable values).  Its clock stands still.    *)
(***************************************************************************)
NoFake == [on |-> FALSE, pages |-> <<>>, quotaKeys |-> {}, rejectsZero |-> FALSE]
NoPrev == [set |-> FALSE]

FakePageLens == {0, 1, 2}
FakePageCounts == {1, 2}
FakeItemSeqs == UNION {[1..n -> {"ok", "bad"}] : n \in FakePageLens}
FakePageLists == UNION {[1..k -> FakeItemSeqs] : k \in FakePageCounts}

\* The page lists of the fakes whose credentials differ in behaviour.
QuotaFakePageLists == {<< <<"ok">> >>, << <<"ok", "ok">>, <<"ok">> >>}

\* The fakes a pool of n credentials can face: any page list with every
\* credential working, or some credentials out of quota.
FakeRemotes(n) ==
    [on : {TRUE}, pages : FakePageLists, quotaKeys : {{}}, rejectsZero : BOOLEAN]
    \cup [on : {TRUE}, pages : QuotaFakePageLists,
          quotaKeys : (SUBSET (0..(n - 1))) \ {{}}, rejectsZero : BOOLEAN]

\* What the fake answers to the request for page k with maxResults = size
\* sent under credential idx.
FakeAnswer(f, k, size, idx) ==
    IF idx \in f.quotaKeys
    THEN [kind |-> "HttpError", status |-> 403, quotaWord |-> TRUE, page |-> NoPage]
    ELSE IF size = 0 /\ f.rejectsZero
    THEN [kind |-> "HttpError", status |-> 500, quotaWord |-> FALSE, page |-> NoPage]
    ELSE IF k \in 1..Len(f.pages)
    THEN [kind |-> "page", status |-> 200, quotaWord |-> FALSE,
          page |-> [items |-> f.pages[k], hasNext |-> k < Len(f.pages)]]
    ELSE [kind |-> "page", status |-> 200, quotaWord |-> FALSE, page |-> NoPage]

(***************************************************************************)
(* The state machine.                                                      *)
(***************************************************************************)
NoArgs == [max_comments |-> 0, max_pages |-> 0, timeout_seconds |-> 0, use_demo |-> FALSE]

\* The concurrent calls of ConcSpec: none has arrived.
Flows == {1, 2}

NoFlow ==
    [pc |-> "idle", attempt |-> 0, key |-> -1, tmp |-> -1, failedKey |-> -1,
     rots |-> 0, interfered |-> FALSE, clean |-> TRUE]

ConcIdle ==
    /\ host = "loop"
    /\ flows = [f \in Flows |-> NoFlow]
    /\ running = 0

NoLegacy == [comments |-> <<>>, stats |-> NoStats, outcome |-> NoOutcome, inStep |-> TRUE]

IdleFetch ==
    /\ pc = "idle"
    /\ entry = "none"
    /\ args = NoArgs
    /\ attempt = 0
    /\ which = "none"
    /\ comments = <<>>
    /\ stats = NoStats
    /\ elapsed = 0
    /\ outcome = NoOutcome
    /\ http = NoHttp
    /\ invocations = 0
    /\ quotaFails = 0
    /\ usedKey = -1
    /\ sleeps = 0
    /\ idx0 = 0
    /\ raised = NoException
    /\ reqSizes = <<>>
    /\ legacy = NoLegacy

Init ==
    /\ nKeys \in 0..MaxKeys
    /\ current_api_key_index = 0
    /\ IdleFetch
    /\ rotCalls = 0
    /\ rotStart = 0
    /\ rotRets = <<>>
    /\ fake = NoFake
    /\ prev = NoPrev
    /\ demo = NoDemo
    /\ ConcIdle

ArgSets ==
    [max_comments : 0..MaxComments, max_pages : 1..MaxPagesArg,
     timeout_seconds : TimeoutArgs, use_demo : BOOLEAN]

\* What a caller may pass: the endpoints fix the timeout, and only
\* /comments/raw has use_demo.
ArgsOf(e, a) ==
    /\ e \in {"raw_endpoint", "legacy_endpoint"} => a.timeout_seconds = ENDPOINT_TIMEOUT
    /\ e # "raw_endpoint" => ~a.use_demo

\* A request arrives, or a test calls the fetch directly.  The fetch sets
\* up its stats and enters the retry call of the first page.  Against a
\* fake the caller repeats its call with the same inputs.
Request ==
    /\ pc = "idle"
    /\ \E e \in Entries, a \in ArgSets :
         /\ ArgsOf(e, a)
         /\ prev.set => (e = prev.entry /\ a = prev.args)
         /\ entry' = e
         /\ args' = a
         /\ IF a.use_demo
            THEN /\ pc' = "done"
                 /\ outcome' = [kind |-> "demo", status |-> 0, detail |-> ""]
                 /\ which' = "none"
                 /\ stats' = NoStats
                 /\ reqSizes' = <<>>
                 /\ legacy' = NoLegacy
            ELSE /\ pc' = "retry"
                 /\ outcome' = NoOutcome
                 /\ which' = "first"
                 /\ stats' = InitialStats(current_api_key_index, nKeys)
                 /\ reqSizes' = <<FirstPageSize(a.max_comments)>>
                 /\ legacy' = IF fake.on
                               THEN [comments |-> <<>>,
                                     stats |-> LegacyInitialStats(current_api_key_index,
                                                                  nKeys),
                                     outcome |-> NoOutcome,
                                     inStep |-> LegacyFirstPageSize(a.max_comments)
                                                    = FirstPageSize(a.max_comments)]
                               ELSE NoLegacy
    /\ attempt' = 0
    /\ comments' = <<>>
    /\ elapsed' = 0
    /\ http' = NoHttp
    /\ invocations' = 0
    /\ quotaFails' = 0
    /\ usedKey' = -1
    /\ sleeps' = 0
    /\ idx0' = current_api_key_index
    /\ raised' = NoException
    /\ UNCHANGED <<nKeys, current_api_key_index, poolTestVars, concVars, fixtureVars, prev>>

\* An iteration that counts the page and checks the page limit before it
\* looks at the clock.
IterationPageLimitFirst(st, cs, page, a, el) ==
    LET p == st.pages_processed + 1
    IN IF PageLimitExceeded(p, a.max_pages)
       THEN [stats |-> [st EXCEPT !.pages_processed = p, !.max_pages_reached = TRUE],
             comments |-> cs, stop |-> TRUE]
       ELSE IF TimedOut(el, a.timeout_seconds)
       THEN [stats |-> [st EXCEPT !.pages_processed = p, !.timeout_reached = TRUE],
             comments |-> cs, stop |-> TRUE]
       ELSE LET r == ProcessItems(page.items, 1,
                                  [comments |-> cs, total |-> st.total_comments,
                                   reached |-> FALSE],
                                  a.max_comments, p)
            IN [stats |-> [st EXCEPT !.pages_processed = p,
                                     !.total_comments = r.total,
                                     !.max_comments_reached = r.reached],
                comments |-> r.comments,
                stop |-> r.reached \/ ~page.hasNext]

\* An iteration that evaluates the timeout and the page limit independently
\* of each other and sets the flag of each that holds.
IterationIndependentFlags(st, cs, page, a, el) ==
    LET p == st.pages_processed + 1
        t == TimedOut(el, a.timeout_seconds)
        g == PageLimitExceeded(p, a.max_pages)
    IN IF t \/ g
       THEN [stats |-> [st EXCEPT !.pages_processed = IF t THEN @ ELSE p,
                                  !.timeout_reached = t,
                                  !.max_pages_reached = g],
             comments |-> cs, stop |-> TRUE]
       ELSE LET r == ProcessItems(page.items, 1,
                                  [comments |-> cs, total |-> st.total_comments,
                                   reached |-> FALSE],
                                  a.max_comments, p)
            IN [stats |-> [st EXCEPT !.pages_processed = p,
                                     !.total_comments = r.total,
                                     !.max_comments_reached = r.reached],
                comments |-> r.comments,
                stop |-> r.reached \/ ~page.hasNext]

\* What one iteration of the while loop makes of the page in hand:
\* the new stats and comments, and whether the loop breaks.
Iteration(st, cs, page, a, el) ==
    IF TimedOut(el, a.timeout_seconds)
    THEN [stats |-> [st EXCEPT !.timeout_reached = TRUE], comments |-> cs, stop |-> TRUE]
    ELSE LET p == st.pages_processed + 1
         IN IF PageLimitExceeded(p, a.max_pages)
            THEN [stats |-> [st EXCEPT !.pages_processed = p, !.max_pages_reached = TRUE],
                  comments |-> cs, stop |-> TRUE]
            ELSE LET r == ProcessItems(page.items, 1,
                                       [comments |-> cs, total |-> st.total_comments,
                                        reached |-> FALSE],
                                       a.max_comments, p)
                 IN [stats |-> [st EXCEPT !.pages_processed = p,
                                          !.total_comments = r.total,
                                          !.max_comments_reached = r.reached],
                     comments |-> r.comments,
                     stop |-> r.reached \/ ~page.hasNext]

\* The retry call returns a page: one iteration of the while loop, up to
\* its break or to the retry call of the next page, whose context
\* (attempt counter and history) is fresh.
PageReturned(page, now, inv, qf) ==
    LET it == Iteration(stats, comments, page, args, now)
        lit == LegacyIteration(legacy.stats, legacy.comments, page, args, now)
    IN /\ legacy' = IF fake.on
                     THEN [comments |-> lit.comments,
                           stats |-> lit.stats,
                           outcome |-> IF lit.stop THEN FetchReturns ELSE legacy.outcome,
                           inStep |-> /\ legacy.inStep
                                      /\ lit.stop = it.stop
                                      /\ LegacyNextPageSize(args.max_comments,
                                                            lit.stats.total_comments)
                                             = NextPageSize(args.max_comments,
                                                            it.stats.total_comments)]
                     ELSE legacy
       /\ stats' = it.stats
       /\ comments' = it.comments
       /\ elapsed' = now
       /\ usedKey' = current_api_key_index
       /\ raised' = NoException
       /\ IF it.stop
          THEN /\ pc' = "done"
               /\ outcome' = FetchReturns
               /\ invocations' = inv
               /\ quotaFails' = qf
               /\ UNCHANGED <<which, reqSizes, attempt, sleeps, idx0>>
          ELSE /\ pc' = "retry"
               /\ which' = "next"
               /\ reqSizes' = Append(reqSizes,
                                     NextPageSize(args.max_comments,
                                                  it.stats.total_comments))
               /\ attempt' = 0
               /\ invocations' = 0
               /\ quotaFails' = 0
               /\ sleeps' = 0
               /\ idx0' = current_api_key_index
               /\ UNCHANGED outcome

\* An exception leaves the retry call and reaches the fetch.
RetryEndsRaise(exc) ==
    /\ pc' = "done"
    /\ raised' = exc
    /\ outcome' = IF which = "next" /\ NextPageCaught(exc)
                  THEN FetchReturns
                  ELSE FetchRaises(exc)
    /\ legacy' = IF fake.on
                 THEN [legacy EXCEPT !.outcome =
                          IF which = "next" /\ LegacyNextPageCaught(exc)
                          THEN FetchReturns
                          ELSE LegacyFetchRaises(exc)]
                 ELSE legacy

\* What the remote can answer to the request in hand: anything, or, with
\* a fake installed, the fake's answer to that request.
RemoteAnswers ==
    IF fake.on
    THEN {FakeAnswer(fake,
                     IF which = "first" THEN 1 ELSE stats.pages_processed + 1,
                     reqSizes[Len(reqSizes)], current_api_key_index)}
    ELSE Answers

\* The clock readings possible when func() has answered.
Readings(kind) ==
    IF fake.on THEN {elapsed} ELSE ReadingsAt(kind, elapsed)

\* One attempt of exponential_backoff_retry: func() and its handler, and,
\* where the page is returned, the loop iteration that processes it.
Invoke ==
    /\ pc = "retry"
    /\ \E ans \in RemoteAnswers : \E now \in Readings(Classify(ans)) :
         LET fa == FuncAnswer(nKeys, ans)
             step == RetryStep(fa.kind, attempt, nKeys)
             inv == IF fa.kind = "no_keys" THEN invocations ELSE invocations + 1
             qf == IF fa.kind = "quota" THEN quotaFails + 1 ELSE quotaFails
         IN /\ current_api_key_index' =
                   IF fa.kind = "quota"
                   THEN RotateIndex(current_api_key_index, nKeys)
                   ELSE current_api_key_index
            /\ CASE step = "return" ->
                        PageReturned(fa.page, now, inv, qf)
                 [] step = "continue" ->
                        /\ attempt' = attempt + 1
                        /\ IF LoopExhausted(attempt + 1)
                           THEN RetryEndsRaise(MaxRetriesExceeded)
                           ELSE /\ pc' = "retry"
                                /\ UNCHANGED <<outcome, raised, legacy>>
                        /\ invocations' = inv
                        /\ quotaFails' = qf
                        /\ UNCHANGED <<sleeps, stats, comments, elapsed, usedKey, which,
                                       reqSizes, idx0>>
                 [] step = "sleep" ->
                        /\ pc' = "sleep"
                        /\ sleeps' = sleeps + 1
                        /\ invocations' = inv
                        /\ quotaFails' = qf
                        /\ UNCHANGED <<attempt, outcome, stats, comments, elapsed, usedKey,
                                       which, reqSizes, idx0, raised, legacy>>
                 [] OTHER ->
                        /\ RetryEndsRaise(RetryRaises(fa.kind))
                        /\ invocations' = inv
                        /\ quotaFails' = qf
                        /\ UNCHANGED <<attempt, sleeps, stats, comments, elapsed, usedKey,
                                       which, reqSizes, idx0>>
    /\ UNCHANGED <<nKeys, entry, args, http, poolTestVars, concVars, fixtureVars, prev>>

\* time.sleep(delay) returns and the for loop takes the next attempt.
Wake ==
    /\ pc = "sleep"
    /\ pc' = "retry"
    /\ attempt' = attempt + 1
    /\ UNCHANGED <<nKeys, current_api_key_index, entry, args, which, comments, stats,
                   elapsed, outcome, http, invocations, quotaFails, usedKey, sleeps,
                   idx0, raised, reqSizes, legacy, poolTestVars, concVars, fixtureVars,
                   prev>>

\* The endpoint turns the outcome of the fetch into its response.
Respond ==
    /\ pc = "done"
    /\ entry \in {"raw_endpoint", "legacy_endpoint"}
    /\ pc' = "responded"
    /\ http' = IF entry = "raw_endpoint"
               THEN fetch_comments_raw(outcome, comments, stats, args.max_comments)
               ELSE fetch_comments(outcome, comments, stats)
    /\ UNCHANGED <<nKeys, current_api_key_index, entry, args, attempt, which, comments,
                   stats, elapsed, outcome, invocations, quotaFails, usedKey, sleeps,
                   idx0, raised, reqSizes, legacy, poolTestVars, concVars, fixtureVars,
                   prev>>

\* The call is over; the process waits for the next one.  Only the pool
\* (the module's globals) outlives a call.
Release ==
    /\ \/ pc = "responded"
       \/ pc = "done" /\ entry = "raw_direct"
    /\ pc' = "idle"
    /\ entry' = "none"
    /\ args' = NoArgs
    /\ attempt' = 0
    /\ which' = "none"
    /\ comments' = <<>>
    /\ stats' = NoStats
    /\ elapsed' = 0
    /\ outcome' = NoOutcome
    /\ http' = NoHttp
    /\ invocations' = 0
    /\ quotaFails' = 0
    /\ usedKey' = -1
    /\ sleeps' = 0
    /\ idx0' = 0
    /\ raised' = NoException
    /\ reqSizes' = <<>>
    /\ legacy' = NoLegacy
    /\ prev' = IF fake.on
               THEN [set |-> TRUE, entry |-> entry, args |-> args,
                     comments |-> comments, stats |-> stats, outcome |-> outcome,
                     http |-> http]
               ELSE prev
    /\ UNCHANGED <<nKeys, current_api_key_index, poolTestVars, concVars, fixtureVars>>

Next ==
    \/ Request
    \/ Invoke
    \/ Wake
    \/ Respond
    \/ Release

Spec == Init /\ [][Next]_vars

\* The same program where requests keep arriving and a call that has started
\* runs on: the code of a call is synchronous, every invocation of the remote
\* answers, and time.sleep returns.
FairSpec ==
    /\ Spec
    /\ WF_vars(Request)
    /\ WF_vars(Invoke)
    /\ WF_vars(Wake)
    /\ WF_vars(Respond)
    /\ WF_vars(Release)

(***************************************************************************)
(* PoolSpec: rotate_api_key called in sequence on a pool of any size, from *)
(* any index the pool can hold.                                            *)
(***************************************************************************)
PoolInit ==
    /\ nKeys \in 0..MaxKeys
    /\ current_api_key_index \in (IF nKeys = 0 THEN {0} ELSE 0..(nKeys - 1))
    /\ IdleFetch
    /\ rotCalls = 0
    /\ rotStart = current_api_key_index
    /\ rotRets = <<>>
    /\ fake = NoFake
    /\ prev = NoPrev
    /\ demo = NoDemo
    /\ ConcIdle

RotateCall ==
    /\ rotCalls < MaxRotateCalls
    /\ current_api_key_index' = RotateIndex(current_api_key_index, nKeys)
    /\ rotRets' = Append(rotRets, RotateReturns(nKeys))
    /\ rotCalls' = rotCalls + 1
    /\ UNCHANGED <<nKeys, rotStart, fetchVars, concVars, fixtureVars, prev>>

PoolNext == RotateCall

PoolSpec == PoolInit /\ [][PoolNext]_vars

(***************************************************************************)
(* FakeSpec: the same program against a deterministic fake remote, from    *)
(* any pool state.                                                         *)
(***************************************************************************)
FakeInit ==
    /\ nKeys \in 0..MaxKeys
    /\ current_api_key_index \in (IF nKeys = 0 THEN {0} ELSE 0..(nKeys - 1))
    /\ IdleFetch
    /\ rotCalls = 0
    /\ rotStart = 0
    /\ rotRets = <<>>
    /\ fake \in FakeRemotes(nKeys)
    /\ prev = NoPrev
    /\ demo = NoDemo
    /\ ConcIdle

FakeSpec == FakeInit /\ [][Next]_vars

(***************************************************************************)
(* DemoSpec: generate_demo_comments called with any max_comments >= 0 and  *)
(* any category, known or not.                                             *)
(***************************************************************************)
DemoInit ==
    /\ nKeys \in {0}
    /\ current_api_key_index = 0
    /\ IdleFetch
    /\ rotCalls = 0
    /\ rotStart = 0
    /\ rotRets = <<>>
    /\ fake = NoFake
    /\ prev = NoPrev
    /\ demo = NoDemo
    /\ ConcIdle

Generate ==
    /\ \E m \in 0..MaxDemoArg, c \in CategoryArgs :
         demo' = [called |-> TRUE, max_comments |-> m, category |-> c,
                  result |-> generate_demo_comments(m, c)]
    /\ UNCHANGED <<nKeys, current_api_key_index, fetchVars, poolTestVars, concVars, fake, prev>>

DemoNext == Generate

DemoSpec == DemoInit /\ [][DemoNext]_vars

(***************************************************************************)
(* ConcSpec: several calls of exponential_backoff_retry under way at once, *)
(* sharing current_api_key_index.  A call reads the index when it builds   *)
(* its client (get_youtube_client) and, on a quota error, in               *)
(* rotate_api_key, whose statement                                         *)
(*     current_api_key_index = (current_api_key_index + 1) % len(API_KEYS) *)
(* is a read of the global followed by a write, with no lock.              *)
(* The host is the event loop of the server as it is started               *)
(* (uvicorn.run(app), every endpoint an async def that calls the fetch and *)
(* time.sleep without awaiting): a handler holds the loop from its first   *)
(* statement to its last; or threads that call the same functions and may  *)
(* be switched between any two steps.                                      *)
(***************************************************************************)
MaxConcKeys == 5
Hosts == {"loop", "threads"}
ConcKinds == {"page", "quota", "http_error"}

\* The scheduler lets call f run.
Runs(f) ==
    host = "threads" \/ running = f

\* The call is between the read of its credential and its next such read.
InWindow(fl) ==
    fl.pc \in {"call", "rot_read", "rot_write", "client"}

\* What is kept of a call that is over.
Settled(fl, newpc) ==
    IF newpc = "finished"
    THEN [NoFlow EXCEPT !.pc = "finished", !.rots = fl.rots]
    ELSE [fl EXCEPT !.pc = newpc]

\* The event loop is given back when the handler ends.
LoopAfter(newpc) ==
    IF newpc = "finished" THEN 0 ELSE running

ConcInit ==
    /\ nKeys \in 1..MaxConcKeys
    /\ current_api_key_index \in 0..(nKeys - 1)
    /\ IdleFetch
    /\ rotCalls = 0
    /\ rotStart = current_api_key_index
    /\ rotRets = <<>>
    /\ fake = NoFake
    /\ prev = NoPrev
    /\ demo = NoDemo
    /\ host \in Hosts
    /\ flows = [f \in Flows |-> NoFlow]
    /\ running = 0

\* A request reaches the server.
FlowArrive(f) ==
    /\ flows[f].pc = "idle"
    /\ flows' = [flows EXCEPT ![f].pc = "pending"]
    /\ UNCHANGED <<nKeys, current_api_key_index, fetchVars, poolTestVars, fixtureVars,
                   prev, host, running>>

\* The handler of the request starts: on the event loop only when no other
\* handler holds it.
FlowBegin(f) ==
    /\ flows[f].pc = "pending"
    /\ host = "threads" \/ running = 0
    /\ flows' = [flows EXCEPT ![f].pc = "client"]
    /\ running' = IF host = "loop" THEN f ELSE running
    /\ UNCHANGED <<nKeys, current_api_key_index, fetchVars, poolTestVars, fixtureVars,
                   prev, host>>

\* get_youtube_client: the attempt takes API_KEYS[current_api_key_index].
FlowGetClient(f) ==
    /\ Runs(f)
    /\ flows[f].pc = "client"
    /\ flows' = [flows EXCEPT ![f].pc = "call",
                              ![f].key = current_api_key_index,
                              ![f].clean = ~flows[f].interfered,
                              ![f].interfered = FALSE]
    /\ UNCHANGED <<nKeys, current_api_key_index, fetchVars, poolTestVars, fixtureVars,
                   prev, host, running>>

\* The remote answers the attempt and the handler of
\* exponential_backoff_retry decides what comes next.
FlowAnswer(f) ==
    /\ Runs(f)
    /\ flows[f].pc = "call"
    /\ \E kind \in ConcKinds :
         LET step == RetryStep(kind, flows[f].attempt, nKeys)
             newpc == CASE step = "continue" -> "rot_read"
                        [] step = "sleep" -> "sleep"
                        [] OTHER -> "finished"
         IN /\ flows' = [flows EXCEPT
                            ![f] = Settled([flows[f] EXCEPT !.failedKey =
                                                IF step = "continue"
                                                THEN flows[f].key ELSE -1],
                                           newpc)]
            /\ running' = LoopAfter(newpc)
    /\ UNCHANGED <<nKeys, current_api_key_index, fetchVars, poolTestVars, fixtureVars,
                   prev, host>>

\* rotate_api_key, first half: the index is read.
FlowRotRead(f) ==
    /\ Runs(f)
    /\ flows[f].pc = "rot_read"
    /\ flows' = [flows EXCEPT ![f].pc = "rot_write",
                              ![f].tmp = current_api_key_index]
    /\ UNCHANGED <<nKeys, current_api_key_index, fetchVars, poolTestVars, fixtureVars,
                   prev, host, running>>

\* rotate_api_key, second half: the index is written; the for loop of
\* exponential_backoff_retry continues with the next attempt, if one is left.
FlowRotWrite(f) ==
    /\ Runs(f)
    /\ flows[f].pc = "rot_write"
    /\ LET newpc == IF LoopExhausted(flows[f].attempt + 1) THEN "finished" ELSE "client"
       IN /\ current_api_key_index' = RotateIndex(flows[f].tmp, nKeys)
          /\ rotCalls' = rotCalls + 1
          /\ flows' = [g \in Flows |->
                         IF g = f
                         THEN Settled([flows[f] EXCEPT !.attempt = @ + 1,
                                                       !.rots = @ + 1,
                                                       !.tmp = -1],
                                      newpc)
                         ELSE IF InWindow(flows[g])
                         THEN [flows[g] EXCEPT !.interfered = TRUE]
                         ELSE flows[g]]
          /\ running' = LoopAfter(newpc)
    /\ UNCHANGED <<nKeys, fetchVars, rotStart, rotRets, fixtureVars, prev, host>>

\* time.sleep(delay) returns.
FlowWake(f) ==
    /\ Runs(f)
    /\ flows[f].pc = "sleep"
    /\ flows' = [flows EXCEPT ![f].pc = "client", ![f].attempt = @ + 1]
    /\ UNCHANGED <<nKeys, current_api_key_index, fetchVars, poolTestVars, fixtureVars,
                   prev, host, running>>

\* A step of the call f itself.
FlowStep(f) ==
    \/ FlowBegin(f)
    \/ FlowGetClient(f)
    \/ FlowAnswer(f)
    \/ FlowRotRead(f)
    \/ FlowRotWrite(f)
    \/ FlowWake(f)

ConcNext ==
    \E f \in Flows : FlowArrive(f) \/ FlowStep(f)

ConcSpec == ConcInit /\ [][ConcNext]_vars


(***************************************************************************)
(* Properties.                                                             *)
(***************************************************************************)
QuotaExhausted == HTTPException(429, "QUOTA_EXCEEDED")

\* A fetch is under way or over (and was not replaced by use_demo).
InFetch ==
    pc \in {"retry", "sleep", "done", "responded"} /\ outcome.kind # "demo"

\* The fetch is over.
FetchOver ==
    pc \in {"done", "responded"} /\ outcome.kind # "demo"

\* C1: for every max_comments >= 0 and whatever the remote answers, the
\* fetch never holds, and so never returns, more than max_comments records;
\* total_comments counts exactly the records held.
C1_NeverMoreThanMaxItems ==
    InFetch =>
        /\ Len(comments) <= args.max_comments
        /\ stats.total_comments = Len(comments)

\* C1 witness: a fetch returned with the limit reached after two pages,
\* the remote having offered more items than allowed.
C1_Witness ==
    /\ pc = "done"
    /\ outcome.kind = "return"
    /\ args.max_comments = MaxComments
    /\ Len(comments) = MaxComments
    /\ stats.max_comments_reached
    /\ stats.pages_processed = 2

\* C2 (as claimed): stats pages_processed never exceeds max_pages, during
\* the loop and in the returned stats.
C2_PagesProcessedWithinMaxPages ==
    InFetch => stats.pages_processed <= args.max_pages

\* C3 (as claimed): a retry call in which every invocation was answered
\* quota-exhausted, and which failed, failed with HTTPException(429,
\* "QUOTA_EXCEEDED") and no other error.
C3_AllQuotaRaisesQuotaExhausted ==
    (/\ FetchOver
     /\ raised.type # "none"
     /\ invocations >= 1
     /\ quotaFails = invocations)
        => raised = QuotaExhausted

\* C4 (as claimed): when the retry call of a next page raises the quota
\* signal, the fetch raises it too.
C4_NextPageQuotaPropagates ==
    (FetchOver /\ which = "next" /\ raised = QuotaExhausted)
        => IsQuotaSignal(outcome)

\* C5 (as claimed): when the retry call of a next page, never answered
\* quota-exhausted, fails after its retries, whatever the error, the fetch
\* returns what it has accumulated.
C5_NextPageFailureSoftStops ==
    (FetchOver /\ which = "next" /\ raised.type # "none" /\ quotaFails = 0)
        => outcome.kind = "return"

\* C6 (as claimed): a request to /comments/raw or /comments whose fetch ran
\* out of quota is answered with demo data whose stats carry
\* demo_fallback = true, never with an error.
C6_QuotaDegradesToDemo ==
    (pc = "responded" /\ raised = QuotaExhausted)
        => /\ http.status = 200
           /\ "demo_fallback" \in DOMAIN http.stats
           /\ http.stats.demo_fallback

\* C7 (as claimed): three credentials, active index 0, the first two answer
\* quota-exhausted on the first page call and the third succeeds: the page
\* is obtained under credential index 2 and the returned stats report
\* api_key_used = 3.
C7_ThirdKeyReported ==
    (/\ pc = "done"
     /\ outcome.kind = "return"
     /\ which = "first"
     /\ nKeys = 3
     /\ idx0 = 0
     /\ invocations = 3
     /\ quotaFails = 2
     /\ sleeps = 0)
        => /\ usedKey = 2
           /\ stats.api_key_used = 3

\* C8: with a pool of one credential a quota-exhausted answer ends the
\* retry call on the spot with the quota signal: no further invocation
\* (one invocation in all when the quota answer was the first answer), no
\* sleep for it, and the pool index is where it was.
C8_SingleKeyQuotaFailsAtOnce ==
    (nKeys = 1 /\ quotaFails >= 1)
        => /\ pc \in {"done", "responded"}
           /\ raised = QuotaExhausted
           /\ quotaFails = 1
           /\ invocations = sleeps + 1
           /\ current_api_key_index = idx0
           /\ which = "first" => IsQuotaSignal(outcome)

\* C8 witness: one credential, the first answer is quota-exhausted, and
\* the first-page call has failed after one invocation and no sleep.
C8_Witness ==
    /\ nKeys = 1
    /\ pc = "done"
    /\ which = "first"
    /\ quotaFails = 1
    /\ invocations = 1
    /\ sleeps = 0
    /\ IsQuotaSignal(outcome)

\* C9: on a pool of N > 1 credentials, from any index, N successive
\* rotate() calls bring the index back to where it was, and each of them
\* returned true.
C9_RotateCycles ==
    (nKeys > 1 /\ rotCalls = nKeys)
        => /\ current_api_key_index = rotStart
           /\ \A i \in 1..Len(rotRets) : rotRets[i]

\* C9 witness: three rotations of a pool of three that started at index 1.
C9_Witness ==
    /\ nKeys = 3
    /\ rotStart = 1
    /\ rotCalls = 3
    /\ current_api_key_index = 1

\* C10: on a pool of one credential every rotate() call returns false and
\* leaves the index unchanged.
C10_SinglePoolRotateIsNoOp ==
    nKeys = 1
        => /\ current_api_key_index = rotStart
           /\ \A i \in 1..Len(rotRets) : ~rotRets[i]

\* C10 witness: several rotate() calls on a pool of one.
C10_Witness ==
    /\ nKeys = 1
    /\ rotCalls >= 3
    /\ Len(rotRets) = rotCalls

(***************************************************************************)
(* What a fake's pages hold.                                               *)
(***************************************************************************)
\* The readable items of page p, from position i on, in order.
RECURSIVE ReadableItems(_, _, _)
ReadableItems(items, p, i) ==
    IF i > Len(items) THEN <<>>
    ELSE (IF items[i] = "ok" THEN << <<p, i>> >> ELSE <<>>)
         \o ReadableItems(items, p, i + 1)

\* The readable items of the first k pages, in page order.
RECURSIVE ReadableUpTo(_, _)
ReadableUpTo(pages, k) ==
    IF k = 0 THEN <<>>
    ELSE ReadableUpTo(pages, k - 1) \o ReadableItems(pages[k], k, 1)

Take(s, n) ==
    SubSeq(s, 1, Min(n, Len(s)))

\* A fetch against a fake has returned.
FakeReturned ==
    fake.on /\ FetchOver /\ outcome.kind = "return"

\* C11 (as claimed): whenever the remote holds more than max_comments
\* (readable) items across its pages and neither the page limit nor the
\* timeout trips, the fetch returns exactly max_comments items with
\* max_comments_reached = true.
C11_MoreHeldReturnsExactlyMax ==
    (/\ FakeReturned
     /\ Len(ReadableUpTo(fake.pages, Len(fake.pages))) > args.max_comments
     /\ ~stats.max_pages_reached
     /\ ~stats.timeout_reached)
        => /\ Len(comments) = args.max_comments
           /\ stats.max_comments_reached

\* The number of items, readable or not, on the first k pages.
RECURSIVE ItemsUpTo(_, _)
ItemsUpTo(pages, k) ==
    IF k = 0 THEN 0 ELSE ItemsUpTo(pages, k - 1) + Len(pages[k])

\* The fetch returned after it processed the fake's last page, the one
\* without a continuation token, and no limit has tripped.
NaturalCompletion ==
    /\ FakeReturned
    /\ stats.pages_processed = Len(fake.pages)
    /\ ~stats.max_comments_reached
    /\ ~stats.max_pages_reached
    /\ ~stats.timeout_reached

\* C12 (amended): when a processed page carries no continuation token and
\* no limit has tripped, the fetch ends there without a further request and
\* without a failure, and returns, in order, every readable item of every
\* fetched page; an item that cannot be read is left out.
C12_NaturalCompletionReturnsReadable ==
    NaturalCompletion
        => /\ comments = ReadableUpTo(fake.pages, Len(fake.pages))
           /\ Len(reqSizes) = Len(fake.pages)
           /\ raised.type = "none"

\* C12 witness: a natural completion over two pages, one of whose items
\* could not be read.
C12_Witness ==
    /\ NaturalCompletion
    /\ Len(fake.pages) = 2
    /\ Len(comments) >= 2
    /\ Len(comments) < ItemsUpTo(fake.pages, 2)

\* C12 (as claimed): a natural completion returns every item of every
\* fetched page.
C12_NaturalCompletionReturnsEveryItem ==
    NaturalCompletion
        => Len(comments) = ItemsUpTo(fake.pages, Len(fake.pages))

\* C13 (amended): with timeout_seconds = 0, a timeout check that reads an
\* elapsed time above 0 stops the fetch: it returns with timeout_reached set
\* and sends no further request; when that check is the first one, one page
\* request was made in all and no item is returned.
C13_TimeoutZeroStopsOnceClockAdvanced ==
    (InFetch /\ args.timeout_seconds = 0 /\ elapsed > 0)
        => /\ FetchOver
           /\ outcome.kind = "return"
           /\ stats.timeout_reached
           /\ stats.pages_processed = 0 => (Len(reqSizes) = 1 /\ comments = <<>>)

\* C13 witness: timeout_seconds = 0, the first page arrived after the clock
\* had advanced, and the fetch returned on the first check.
C13_Witness ==
    /\ pc = "done"
    /\ args.timeout_seconds = 0
    /\ args.max_comments = MaxComments
    /\ elapsed > 0
    /\ stats.pages_processed = 0
    /\ stats.timeout_reached
    /\ Len(reqSizes) = 1

\* C13 (as claimed): with timeout_seconds = 0 a fetch makes no next-page
\* request, and when it returns, timeout_reached is set.
C13_TimeoutZeroOnePageFetch ==
    (InFetch /\ args.timeout_seconds = 0)
        => /\ Len(reqSizes) <= 1
           /\ (FetchOver /\ outcome.kind = "return") => stats.timeout_reached

\* C14 (as claimed): two successive fetch calls with identical inputs
\* against the same deterministic fake remote end alike and return
\* identical item sequences and identical stats, from any starting pool
\* state and whichever credentials answer quota-exhausted.
C14_RepeatedCallSameResult ==
    (fake.on /\ prev.set /\ FetchOver /\ prev.outcome.kind # "demo")
        => /\ outcome.kind = prev.outcome.kind
           /\ outcome.kind = "return"
                => (comments = prev.comments /\ stats = prev.stats)

\* C15: when the retry call of the first page fails with anything but the
\* quota signal, the fetch fails: it raises HTTPException(500) whose detail
\* names the cause (the HTTPException of the retry call as it is, any other
\* exception wrapped as "Failed to fetch comments: ..."), nothing is
\* returned, and an endpoint answers with that error.
C15_FirstPageFailureFailsFetch ==
    (FetchOver /\ which = "first" /\ raised.type # "none" /\ raised # QuotaExhausted)
        => /\ outcome.kind = "raise"
           /\ outcome.status = 500
           /\ outcome.detail = (IF raised.type = "HTTPException"
                                THEN raised.detail
                                ELSE "Failed to fetch comments")
           /\ comments = <<>>
           /\ pc = "responded" => http = ErrorResponse(500, outcome.detail)

\* C15 witness: the first page request was answered with a non-quota
\* HttpError on each of the MAX_RETRIES attempts, and /comments/raw has
\* answered 500.
C15_Witness ==
    /\ pc = "responded"
    /\ entry = "raw_endpoint"
    /\ which = "first"
    /\ quotaFails = 0
    /\ invocations = MAX_RETRIES
    /\ sleeps = MAX_RETRIES - 1
    /\ raised = HTTPException(500, "YouTube API error")
    /\ http.status = 500

\* C16 (as claimed): with an empty credential pool a fetch fails with the
\* no-credentials error at once: no remote request, no retry and no sleep.
C16_EmptyPoolFailsAtOnce ==
    (InFetch /\ nKeys = 0)
        => /\ invocations = 0
           /\ sleeps = 0
           /\ attempt = 0
           /\ FetchOver => raised = HTTPException(500, "No YouTube API keys configured")

\* C17: on success the returned records are, in order, the readable items
\* of the processed pages in page order and in-page order, restricted to
\* the first max_pages pages and cut at max_comments records: no record of
\* a later page, none out of order, none twice.
C17_RecordsArePagesInOrder ==
    FakeReturned
        => /\ comments = Take(ReadableUpTo(fake.pages,
                                           Min(stats.pages_processed, args.max_pages)),
                              args.max_comments)
           /\ \A i \in 1..Len(comments) : comments[i][1] <= args.max_pages
           /\ \A i, j \in 1..Len(comments) :
                i < j => \/ comments[i][1] < comments[j][1]
                         \/ /\ comments[i][1] = comments[j][1]
                            /\ comments[i][2] < comments[j][2]

\* C17 witness: max_pages = 1 against two pages; the first page had an
\* unreadable item before a readable one, the second page, which holds a
\* readable item, was fetched and left out.
C17_Witness ==
    /\ FakeReturned
    /\ args.max_pages = 1
    /\ stats.max_pages_reached
    /\ Len(fake.pages) = 2
    /\ ReadableItems(fake.pages[2], 2, 1) # <<>>
    /\ comments = << <<1, 2>> >>

\* The category generate_demo_comments works with: an unknown one is "tech".
DemoCategory ==
    IF demo.category \in DOMAIN DEMO_COMMENTS THEN demo.category ELSE "tech"

\* C18: generate_demo_comments(video_id, max_comments, category) returns
\* exactly min(max_comments, size of the category's pool) records for every
\* max_comments >= 0 and every category, an unknown category counting as
\* "tech"; each record is drawn from that pool and carries the sentinel
\* sentiment; stats total_comments is that count and demo_mode is true.
C18_DemoReturnsMinOfMaxAndPool ==
    demo.called
        => LET r == demo.result
               n == Min(demo.max_comments, DEMO_COMMENTS[DemoCategory])
           IN /\ Len(r.comments) = n
              /\ \A i \in 1..Len(r.comments) :
                    /\ r.comments[i].sentiment = "Not analyzed"
                    /\ r.comments[i].pool = DemoCategory
              /\ r.stats.total_comments = n
              /\ r.stats.demo_mode = TRUE
              /\ r.stats.demo_category = DemoCategory

\* C18 witness: a call with an unknown category that asks for more records
\* than the pool holds and gets the pool's size.
C18_Witness ==
    /\ demo.called
    /\ demo.category \notin DOMAIN DEMO_COMMENTS
    /\ demo.max_comments > DEMO_POOL_SIZE
    /\ Len(demo.result.comments) = DEMO_POOL_SIZE
    /\ demo.result.stats.demo_category = "tech"

\* C19 (as claimed): a quota-exhausted failure followed by a successful
\* rotation does not consume a retry attempt: the attempt counter advances
\* only past a failure that was slept on, so a retry call never runs out of
\* attempts by rotating.
C19_RotationKeepsAttempts ==
    InFetch
        => /\ pc = "retry" => attempt = sleeps
           /\ raised # MaxRetriesExceeded

\* C20: a retry call whose every attempt failed with a non-quota error made
\* exactly MAX_RETRIES attempts (each of them a request, where there is a
\* credential to send it with), slept once after each attempt but the
\* last, and then failed with the error it observed: an HttpError as
\* HTTPException(500, "YouTube API error: ..."), any other exception as it
\* is.
C20_NonQuotaFailuresExhaustRetries ==
    (FetchOver /\ raised.type # "none" /\ quotaFails = 0)
        => /\ attempt = MAX_RETRIES - 1
           /\ sleeps = MAX_RETRIES - 1
           /\ nKeys > 0 => invocations = MAX_RETRIES
           /\ raised \in {HTTPException(500, "YouTube API error"), OtherException,
                          HTTPException(500, "No YouTube API keys configured")}
           /\ raised = HTTPException(500, "No YouTube API keys configured") <=> nKeys = 0

\* C20 witness: a next-page retry call failed after MAX_RETRIES requests and
\* MAX_RETRIES - 1 sleeps on an exception that is no HttpError.
C20_Witness ==
    /\ pc = "done"
    /\ which = "next"
    /\ quotaFails = 0
    /\ invocations = MAX_RETRIES
    /\ sleeps = MAX_RETRIES - 1
    /\ raised = OtherException

\* The number of the three "reached" flags that are set.
FlagsSet ==
    (IF stats.max_comments_reached THEN 1 ELSE 0)
    + (IF stats.max_pages_reached THEN 1 ELSE 0)
    + (IF stats.timeout_reached THEN 1 ELSE 0)

\* C21: the stop conditions are checked in the order timeout, page limit,
\* item limit, and the first that holds sets its flag alone and ends the
\* loop: a timeout leaves pages_processed as it was (one page fewer than
\* fetched, and not above max_pages), the page limit is flagged only by an
\* iteration that did not time out and that counted page max_pages + 1, and
\* the item limit only with max_comments records held.
C21_FirstStopConditionWins ==
    (InFetch /\ FlagsSet > 0)
        => /\ FlagsSet = 1
           /\ FetchOver
           /\ outcome.kind = "return"
           /\ stats.timeout_reached
                => /\ stats.pages_processed = Len(reqSizes) - 1
                   /\ stats.pages_processed <= args.max_pages
                   /\ TimedOut(elapsed, args.timeout_seconds)
           /\ stats.max_pages_reached
                => /\ stats.pages_processed = args.max_pages + 1
                   /\ ~TimedOut(elapsed, args.timeout_seconds)
           /\ stats.max_comments_reached
                => /\ stats.total_comments >= args.max_comments
                   /\ stats.pages_processed <= args.max_pages
                   /\ ~TimedOut(elapsed, args.timeout_seconds)

\* C21 witness: the timeout elapsed on the iteration that would have
\* exceeded max_pages: timeout_reached alone is set and pages_processed
\* stays at max_pages.
C21_Witness ==
    /\ pc = "done"
    /\ outcome.kind = "return"
    /\ stats.timeout_reached
    /\ ~stats.max_pages_reached
    /\ stats.pages_processed = args.max_pages
    /\ Len(reqSizes) = args.max_pages + 1

\* C22 (amended): in the stats of a fetch at most one of the three flags
\* max_comments_reached, max_pages_reached, timeout_reached is true, at
\* any moment and in what is returned.
C22_AtMostOneFlag ==
    InFetch => FlagsSet <= 1

\* C22 witness: a fetch returned with max_pages_reached set while the item
\* limit had been met as well; max_comments_reached stayed false.
C22_Witness ==
    /\ pc = "done"
    /\ outcome.kind = "return"
    /\ stats.max_pages_reached
    /\ args.max_comments > 0
    /\ stats.total_comments >= args.max_comments
    /\ ~stats.max_comments_reached

\* C22 (as claimed): a fetch can return stats in which more than one of the
\* three flags is true: sooner or later some fetch does.
C22_SomeFetchReturnsTwoFlags ==
    <>(FetchOver /\ outcome.kind = "return" /\ FlagsSet >= 2)

\* C23 (amended): in the stats of generate_demo_comments
\* max_comments_reached is true exactly when as many records were produced
\* as were asked for, that is when max_comments does not exceed the size of
\* the category's pool; it is false when the pool was exhausted.
C23_DemoFlagIffRequestMet ==
    demo.called
        => LET r == demo.result
           IN /\ r.stats.max_comments_reached
                    <=> demo.max_comments <= DEMO_COMMENTS[DemoCategory]
              /\ r.stats.max_comments_reached
                    <=> Len(r.comments) = demo.max_comments

\* C23 witness: more records asked for than the pool holds; the pool's
\* size was produced and the flag is false.
C23_Witness ==
    /\ demo.called
    /\ demo.max_comments > DEMO_COMMENTS[DemoCategory]
    /\ Len(demo.result.comments) = DEMO_COMMENTS[DemoCategory]
    /\ ~demo.result.stats.max_comments_reached

\* C23 (as claimed): max_comments_reached is true when the pool was
\* exhausted, that is when max_comments exceeds the size of the pool and
\* fewer than max_comments records were produced.
C23_DemoFlagOnPoolExhausted ==
    (demo.called /\ demo.max_comments > DEMO_COMMENTS[DemoCategory])
        => demo.result.stats.max_comments_reached

\* C24: on a non-empty pool, whatever calls rotate and however the reads
\* and writes of their rotations interleave, the index stays within
\* 0 .. len(API_KEYS) - 1.
C24_IndexInRangeUnderInterleaving ==
    nKeys >= 1
        => /\ current_api_key_index \in 0..(nKeys - 1)
           /\ \A f \in Flows :
                /\ flows[f].pc = "call" => flows[f].key \in 0..(nKeys - 1)
                /\ flows[f].pc = "rot_write" => flows[f].tmp \in 0..(nKeys - 1)

\* C24 witness: threads, every call has rotated, the index has wrapped, and
\* a rotation is under way whose read is stale already.
C24_Witness ==
    /\ host = "threads"
    /\ nKeys > 1
    /\ \A f \in Flows : flows[f].rots >= 1
    /\ current_api_key_index < rotStart
    /\ \E f \in Flows : /\ flows[f].pc = "rot_write"
                        /\ flows[f].tmp # current_api_key_index

\* C25: two rotate_api_key calls on a pool of more than one credential,
\* made by concurrent calls with no lock, leave the index advanced by 1
\* (one write overwrote the other) or by 2 (as in a serial execution)
\* modulo the pool size, and by nothing else.
C25_TwoRacingRotationsAdvanceOneOrTwo ==
    (nKeys > 1 /\ rotCalls = 2)
        => current_api_key_index \in {(rotStart + 1) % nKeys, (rotStart + 2) % nKeys}

\* C25 witness: two threads rotated once each, both from the same read: the
\* index advanced by one step only.
C25_Witness ==
    /\ host = "threads"
    /\ nKeys > 2
    /\ rotCalls = 2
    /\ \A f \in Flows : flows[f].rots = 1
    /\ current_api_key_index = (rotStart + 1) % nKeys

\* C26: while one call is in a backoff sleep, every other call that has
\* reached the server and is not over can take a step.
C26_SleepBlocksOnlyItsFlow ==
    \A f \in Flows, g \in Flows :
        (f # g /\ flows[f].pc = "sleep" /\ flows[g].pc \notin {"idle", "finished"})
            => ENABLED FlowStep(g)

C28_NoRequestAfterItemLimit ==
    (InFetch /\ args.max_comments > 0)
        => /\ \A i \in 1..Len(reqSizes) : reqSizes[i] \in 1..PAGE_CEILING
           /\ (pc \in {"retry", "sleep"} /\ which = "next")
                  => stats.total_comments < args.max_comments

\* A retry call of the fetch is under way.
FetchRunning ==
    pc \in {"retry", "sleep"}

\* What a running fetch can still do at most: the pages it may still count,
\* each worth a full retry call, and the attempts and sleeps left in the
\* retry call under way.
StepsLeft ==
    IF FetchRunning
    THEN (args.max_pages + 1 - stats.pages_processed) * (2 * MAX_RETRIES + 1)
         + 2 * (MAX_RETRIES - attempt)
         - (IF pc = "sleep" THEN 1 ELSE 0)
    ELSE 0

\* The bounds of a fetch: a retry call invokes the page request at most
\* MAX_RETRIES times and sleeps less often, the loop handles at most
\* max_pages + 1 pages, and a running fetch always has a next step.
C29_FetchBounds ==
    InFetch
        => /\ invocations <= MAX_RETRIES
           /\ attempt <= MAX_RETRIES
           /\ sleeps < MAX_RETRIES
           /\ stats.pages_processed <= args.max_pages + 1
           /\ Len(reqSizes) <= args.max_pages + 1
           /\ FetchRunning
                => /\ attempt < MAX_RETRIES
                   /\ stats.pages_processed <= args.max_pages
                   /\ StepsLeft > 0
                   /\ ENABLED (Invoke \/ Wake)

\* Every step of a running fetch ends it or leaves it strictly less to do.
C29_FetchProgress ==
    FetchRunning => (pc' = "done" \/ (FetchRunning' /\ StepsLeft' < StepsLeft))

\* C29: every fetch terminates, whatever the remote answers: each retry
\* call invokes the page request at most MAX_RETRIES times, the loop runs
\* at most max_pages + 1 iterations, a fetch that has not ended can always
\* take a step, and each of its steps ends it or uses up some of the
\* bounded number of steps left.
C29_EveryFetchTerminates ==
    []C29_FetchBounds /\ [][C29_FetchProgress]_vars

\* C29 witness: the remote gave a token on every page, and the last page
\* request the page limit allows was answered with quota errors until the
\* attempts ran out; the fetch ended.
C29_Witness ==
    /\ pc = "done"
    /\ outcome.kind = "return"
    /\ nKeys > 1
    /\ args.max_pages = MaxPagesArg
    /\ Len(reqSizes) = args.max_pages + 1
    /\ invocations = MAX_RETRIES
    /\ quotaFails = MAX_RETRIES

\* The records of get_video_comments with the sentiment field left out.
RECURSIVE WithoutSentiment(_)
WithoutSentiment(cs) ==
    IF cs = <<>> THEN <<>>
    ELSE <<cs[1].item>> \o WithoutSentiment(Tail(cs))

\* C30: get_video_comments, run beside get_video_comments_raw with the
\* same arguments, the same pool and the same remote behaviour,
\* stays in step with it: at every moment it has the same stats and the
\* same records apart from the sentiment field (which is a score in the one
\* and absent in the other), it breaks its loop on the same iterations and
\* asks for the same page sizes, and it returns or fails with the same
\* error.
C30_LegacyInStepWithRaw ==
    (InFetch /\ fake.on)
        => /\ legacy.inStep
           /\ legacy.stats = stats
           /\ WithoutSentiment(legacy.comments) = comments
           /\ legacy.outcome = outcome
           /\ \A k \in 1..Len(legacy.comments) :
                legacy.comments[k].sentiment \in {"Positive", "Neutral", "Negative"}

\* C30 witness: both fetches returned max_comments records, the legacy one
\* with two different scores, after a page with an item neither could read.
C30_Witness ==
    /\ fake.on
    /\ pc = "done"
    /\ outcome.kind = "return"
    /\ legacy.outcome.kind = "return"
    /\ Len(comments) = MaxComments
    /\ Len(legacy.comments) = MaxComments
    /\ legacy.comments[1].sentiment # legacy.comments[2].sentiment
    /\ comments[1][2] > 1

=============================================================================
